---- MODULE Spec2Model ----
(***************************************************************************)
(* BbsBlsSignatureProof2020: selective-disclosure derivation and           *)
(* verification of BBS+ signed linked-data documents.                      *)
(*                                                                         *)
(* Data representation                                                     *)
(*   - an RDF term is a sequence of text chunks; the chunks "_:c14n" and   *)
(*     "<urn:bnid:" are the two prefixes the code tests for, every other   *)
(*     chunk is opaque text and ">" is the single closing character;       *)
(*   - a statement (one N-Quads line) is <<subject, predicate, object>>,   *)
(*     its text being the three joined by single spaces;                   *)
(*   - a JSON proof object is a function from its keys to their values;    *)
(*   - a JSON-LD document is the graph [graph |-> its canonical statement  *)
(*     list]; its top-level keys are the predicates of its statements;     *)
(*   - a thrown exception is [kind |-> "throw", error |-> name], a normal  *)
(*     completion [kind |-> "return", value |-> v].                        *)
(***************************************************************************)
EXTENDS Integers, Sequences, FiniteSets, TLC

VARIABLES pc, signed, presented, derivation, verification, tamper

vars == <<pc, signed, presented, derivation, verification, tamper>>

\* Longest signed document, in statements.
MaxDoc == 2
\* Longest canonicalized reveal result, in statements.
MaxReveal == 2

-----------------------------------------------------------------------------
(* Generic helpers *)

Range(s) == {s[i] : i \in 1..Len(s)}

Has(obj, k) == k \in DOMAIN obj

\* JavaScript `delete obj[k]` on a copy.
Delete(obj, k) == [x \in (DOMAIN obj) \ {k} |-> obj[x]]

\* JavaScript object spread {...a, ...b}: keys of b override keys of a.
Spread(a, b) == b @@ a

Throw(e) == [kind |-> "throw", error |-> e]

Return(v) == [kind |-> "return", value |-> v]

\* Array.prototype.indexOf: zero-based position of the first exact match, -1 if none.
IndexOf(arr, key) ==
  IF \E i \in 1..Len(arr) : arr[i] = key
  THEN (CHOOSE i \in 1..Len(arr) : arr[i] = key /\ \A j \in 1..(i - 1) : arr[j] # key) - 1
  ELSE -1

\* Array.from(Array(n).keys()) = [0, 1, ..., n-1]
Keys(n) == [i \in 1..n |-> i - 1]

-----------------------------------------------------------------------------
(* Terms and statements *)

BlankNodePrefix == <<"_:c14n">>
BnidPrefix == <<"<urn:bnid:">>
WrappedBlankNodePrefix == <<"<urn:bnid:", "_:c14n">>

\* String.prototype.startsWith on chunked text.
StartsWith(term, prefix) ==
  /\ Len(term) >= Len(prefix)
  /\ SubSeq(term, 1, Len(prefix)) = prefix

Blank0 == <<"_:c14n", "0">>
Wrapped0 == <<"<urn:bnid:", "_:c14n", "0", ">">>
IriA == <<"<http://example.com/", "a", ">">>

\* Every document statement of the model, in canonical N-Quads (code point)
\* order: '<' sorts before '_', 'h' before 'u'.
StatementOrder ==
  << <<IriA, "name", "x">>,
     <<Wrapped0, "name", "x">>,
     <<Blank0, "name", "x">>,
     <<Blank0, "nonce", "x">> >>

Statements == Range(StatementOrder)

\* The canonical list holding exactly the statements of a set: sorted, no duplicates.
CanonicalOf(set) == SelectSeq(StatementOrder, LAMBDA st : st \in set)

CanonicalLists(maxLen) ==
  {CanonicalOf(S) : S \in {T \in SUBSET Statements : Cardinality(T) <= maxLen}}

\* An empty line of canonicalizer output (the text after the last newline).
EmptyLine == <<>>

-----------------------------------------------------------------------------
(* Proof objects *)

IssuerProofType == "BbsBlsSignature2020"
DerivedProofType == "BbsBlsSignatureProof2020"
OtherProofType == "Ed25519Signature2018"

\* The suite's key (this.key); the issuer signs with the same key.
SuiteKey == [publicKeyBuffer |-> "issuerPublicKey"]

VerificationMethodId == "did:example:489398593#test"

\* Keys of a proof object that canonicalize to a statement, in statement order.
ProofKeyOrder == <<"created", "type", "verificationMethod">>

\* Fields canonizeProof removes before canonicalizing.
DisclosureOnlyFields == {"totalStatements", "revealStatements", "nonce", "proof"}

\* Buffer.from(bytes).toString("base64") and new Buffer(text, "base64").
Base64Encode(bytes) == [base64 |-> bytes]
Base64Decode(text) == text.base64

\* The issuer's BBS+ signature over an ordered message list.
BlsSign(publicKey, messages) == [publicKey |-> publicKey, messages |-> messages]

-----------------------------------------------------------------------------
(* Canonicalization *)

IsGraph(input) == Has(input, "graph")

\* The RDF object term of a proof key's value.
TermOf(key, value) ==
  IF key = "verificationMethod"
  THEN (IF value.form = "object" THEN value.id ELSE value.text)
  ELSE value

\* Canonical statements of a proof node: one per key, on the blank node _:c14n0.
NodeStatements(obj) ==
  LET present == SelectSeq(ProofKeyOrder, LAMBDA k : Has(obj, k))
  IN [i \in 1..Len(present) |-> <<Blank0, present[i], TermOf(present[i], obj[present[i]])>>]

\* jsonld.canonize: the canonical N-Quads text, one line per statement, each
\* ended by a newline; it fails when the document loader cannot load a context.
JsonldCanonize(input, documentLoader) ==
  IF (IsGraph(input) /\ documentLoader.failsOn = "document")
     \/ (~IsGraph(input) /\ documentLoader.failsOn = "proof")
  THEN Throw("CanonicalizationError")
  ELSE Return((IF IsGraph(input) THEN input.graph ELSE NodeStatements(input)) \o <<EmptyLine>>)

\* c14n.split("\n").filter(_ => _.length > 0)
SplitLines(c14n) == SelectSeq(c14n, LAMBDA line : Len(line) > 0)

canonize(input, documentLoader) == JsonldCanonize(input, documentLoader)

\* `delete input[k]` for each k: a proof object loses the key, a document
\* loses the statements of that top-level key.
DeleteKeys(input, ks) ==
  IF IsGraph(input)
  THEN [graph |-> SelectSeq(input.graph, LAMBDA st : st[2] \notin ks)]
  ELSE [x \in (DOMAIN input) \ ks |-> input[x]]

\* Fault variant: the disclosure-only fields are deleted from the caller's
\* object itself (the `proof = { ...proof }` copy is missing).
canonizeProofInPlace(proof, documentLoader) ==
  LET stripped == DeleteKeys(proof, DisclosureOnlyFields)
  IN [result |-> canonize(stripped, documentLoader), arg |-> stripped]

\* canonizeProof: copies its argument, strips the copy, canonicalizes it.
\* result is the outcome, arg the caller's object after the call.
canonizeProof(proof, documentLoader) ==
  LET copy == DeleteKeys(proof, DisclosureOnlyFields)
  IN [result |-> canonize(copy, documentLoader), arg |-> proof]

createVerifyProofData(proof, documentLoader) ==
  LET c == canonizeProof(proof, documentLoader)
  IN [result |-> IF c.result.kind = "throw" THEN c.result
                 ELSE Return(SplitLines(c.result.value)),
      arg |-> c.arg]

createVerifyDocumentData(document, documentLoader) ==
  LET c == canonize(document, documentLoader)
  IN IF c.kind = "throw" THEN c ELSE Return(SplitLines(c.value))

\* BbsBlsSignature2020.createVerifyProofData: canonicalize the proof metadata
\* without its signature.
SuiteCreateVerifyProofData(proof, documentLoader) ==
  LET c == canonize(Delete(proof, "signature"), documentLoader)
  IN IF c.kind = "throw" THEN c ELSE Return(SplitLines(c.value))

\* BbsBlsSignature2020.createVerifyDocumentData
SuiteCreateVerifyDocumentData(document, documentLoader) ==
  LET c == canonize(document, documentLoader)
  IN IF c.kind = "throw" THEN c ELSE Return(SplitLines(c.value))

-----------------------------------------------------------------------------
(* Blank-node stabilizer *)

\* String.prototype.replace(nodeIdentifier, replacement): the first occurrence
\* of the identifier is the start of the element, as it is element.split(" ")[0].
ReplaceNodeIdentifier(element, replacement) == [element EXCEPT ![1] = replacement]

\* deriveProof: _:c14n0 => <urn:bnid:_:c14n0>
TransformBlankNodeIdentifier(element) ==
  LET nodeIdentifier == element[1]
  IN IF StartsWith(nodeIdentifier, BlankNodePrefix)
     THEN ReplaceNodeIdentifier(element, BnidPrefix \o nodeIdentifier \o <<">">>)
     ELSE element

\* verifyProof: <urn:bnid:_:c14n0> => _:c14n0
\* substring("<urn:bnid:".length, length - 1) drops the prefix and the last character.
RestoreBlankNodeIdentifier(element) ==
  LET nodeIdentifier == element[1]
  IN IF StartsWith(nodeIdentifier, WrappedBlankNodePrefix)
     THEN ReplaceNodeIdentifier(element,
            SubSeq(nodeIdentifier, Len(BnidPrefix) + 1, Len(nodeIdentifier) - 1))
     ELSE element

-----------------------------------------------------------------------------
(* External collaborators of deriveProof *)

\* jsonld.fromRDF: parse the N-Quads lines into a graph (a set of statements).
FromRDF(lines) == [graph |-> CanonicalOf(Range(lines))]

\* jsonld.frame: the statements of the graph the template matches, plus the
\* statements the template supplies itself (@default values).
Frame(input, revealDocument) ==
  [graph |-> CanonicalOf((Range(input.graph) \cap revealDocument.match)
                           \cup revealDocument.default)]

\* blsCreateProof: a proof of knowledge of the signature over `messages`,
\* disclosing the messages at the `revealed` positions, bound to `nonce`.
blsCreateProof(request) ==
  IF \E i \in 1..Len(request.revealed) :
        request.revealed[i] < 0 \/ request.revealed[i] >= Len(request.messages)
  THEN Throw("PrimitiveFailure")
  ELSE Return([publicKey |-> request.signature.publicKey,
               signedMessages |-> request.signature.messages,
               messages |-> request.messages,
               nonce |-> request.nonce,
               revealed |-> request.revealed])

\* blsVerifyProof: accepts iff the proof was made under the key from a signature
\* over messageCount messages, for this nonce and these positions, and each
\* supplied message is the signed message at the corresponding position.
blsVerifyProof(request) ==
  LET p == request.proof
      accepts ==
        /\ p.publicKey = request.publicKey
        /\ p.messages = p.signedMessages
        /\ request.messageCount = Len(p.signedMessages)
        /\ request.nonce = p.nonce
        /\ request.revealed = p.revealed
        /\ Len(request.messages) = Len(request.revealed)
        /\ \A i \in 1..Len(request.revealed) :
              request.messages[i] = p.signedMessages[request.revealed[i] + 1]
  IN IF accepts THEN [verified |-> TRUE, error |-> "none"]
     ELSE [verified |-> FALSE, error |-> "PrimitiveFailure"]

\* purpose.validate
PurposeValidate(purpose) ==
  IF purpose = "valid" THEN [valid |-> TRUE, error |-> "none"]
  ELSE [valid |-> FALSE, error |-> "PurposeFailure"]

-----------------------------------------------------------------------------
(* getVerificationMethod *)

\* jsonld.frame of the verification method identifier: the loaded key document,
\* or nothing when the loader cannot find it.
ResolveVerificationMethod(id, documentLoader) ==
  IF documentLoader.resolves = "notFound" THEN [found |-> FALSE]
  ELSE IF documentLoader.resolves = "revoked"
  THEN [found |-> TRUE, id |-> id, revoked |-> "2020-01-01T00:00:00Z"]
  ELSE [found |-> TRUE, id |-> id]

\* Fault variant: the revocation marker is not looked at.
RevocationIgnored(result) == Return(result)

\* "ensure verification method has not been revoked"
RevocationCheck(result) ==
  IF Has(result, "revoked") THEN Throw("Revoked") ELSE Return(result)

getVerificationMethod(proof, documentLoader) ==
  IF ~Has(proof, "verificationMethod")
  THEN Throw("MissingReference")
  ELSE
    LET given == proof.verificationMethod
        verificationMethod == IF given.form = "object" THEN given.id ELSE given.text
    IN IF verificationMethod = ""
       THEN Throw("MissingReference")
       ELSE LET result == ResolveVerificationMethod(verificationMethod, documentLoader)
            IN IF ~result.found THEN Throw("NotFound")
               ELSE RevocationCheck(result)

-----------------------------------------------------------------------------
(* deriveProof *)

\* `if (!nonce)`: undefined and the empty string are both falsy.
NonceIsFalsy(options) == ~Has(options, "nonce") \/ options.nonce = ""

\* The reveal indices of the document statements: position in the stabilized
\* document statements, offset by the number of proof statements.
DocumentRevealIndicies(revealStatements, transformedStatements, numberOfProofStatements) ==
  [i \in 1..Len(revealStatements) |->
     IndexOf(transformedStatements, revealStatements[i]) + numberOfProofStatements]

\* The mismatch check compares the lengths of the mapped and the original array.
MismatchDetected(documentRevealIndicies, revealDocumentStatements) ==
  Len(documentRevealIndicies) # Len(revealDocumentStatements)

\* Fault variant: proof statement positions counted from one.
ProofRevealIndiciesFromOne(numberOfProofStatements) ==
  [i \in 1..numberOfProofStatements |-> i]

\* "Always reveal all the statements associated to the original proof"
ProofRevealIndicies(numberOfProofStatements) == Keys(numberOfProofStatements)

\* The record of a deriveProof call that has not passed any step.
NoDerivation ==
  [outcome |-> Throw("NotCalled"),
   called |-> FALSE,
   nonceOption |-> <<>>,
   proofBefore |-> <<>>,
   documentBefore |-> [graph |-> <<>>],
   proofAfter |-> <<>>,
   documentAfter |-> [graph |-> <<>>],
   proofStatements |-> <<>>,
   documentStatements |-> <<>>,
   transformedInputDocumentStatements |-> <<>>,
   revealDocumentStatements |-> <<>>,
   revealIndicies |-> <<>>,
   createProofRequests |-> <<>>]

\* inputProof = { ...proof } without signature and type; arg is the caller's
\* proof object after the two deletions.
StripInputProof(proof) ==
  [inputProof |-> Delete(Delete(proof, "signature"), "type"), arg |-> proof]

\* The derived proof object.
DerivedProof(inputProof, outputProof, revealIndicies, allInputStatements, nonce) ==
     Spread(Spread("type" :> DerivedProofType, inputProof),
            [proof |-> Base64Encode(outputProof),
             revealStatements |-> revealIndicies,
             totalStatements |-> Len(allInputStatements),
             nonce |-> nonce])

\* deriveProof(options), with the document loader and the random source it
\* uses.  Returns the record of the call: its outcome, the caller's objects
\* after it, and the intermediate values.
deriveProof(options, documentLoader, random) ==
  LET document == options.document
      proof == options.proof
      base == [NoDerivation EXCEPT
                 !.called = TRUE,
                 !.nonceOption = [k \in (DOMAIN options) \cap {"nonce"} |-> options[k]],
                 !.proofBefore = proof, !.documentBefore = document,
                 !.proofAfter = proof, !.documentAfter = document]
      docData == SuiteCreateVerifyDocumentData(document, documentLoader)
      proofData == SuiteCreateVerifyProofData(proof, documentLoader)
  IN
  IF proof.type # IssuerProofType THEN [base EXCEPT !.outcome = Throw("TypeMismatch")]
  ELSE IF ~Has(proof, "signature") THEN [base EXCEPT !.outcome = Throw("DecodeError")]
  ELSE IF docData.kind = "throw" THEN [base EXCEPT !.outcome = docData]
  ELSE IF proofData.kind = "throw" THEN [base EXCEPT !.outcome = proofData]
  ELSE
    LET signature == Base64Decode(proof.signature)
        documentStatements == docData.value
        proofStatements == proofData.value
        transformedInputDocumentStatements ==
          [i \in 1..Len(documentStatements) |->
             TransformBlankNodeIdentifier(documentStatements[i])]
        compactInputProofDocument == FromRDF(transformedInputDocumentStatements)
        revealDocumentResult == Frame(compactInputProofDocument, options.revealDocument)
        revealData == SuiteCreateVerifyDocumentData(revealDocumentResult, documentLoader)
        revealDocumentStatements == revealData.value
        numberOfProofStatements == Len(proofStatements)
        proofRevealIndicies == ProofRevealIndicies(numberOfProofStatements)
        documentRevealIndicies ==
          DocumentRevealIndicies(revealDocumentStatements,
                                 transformedInputDocumentStatements,
                                 numberOfProofStatements)
        revealIndicies == proofRevealIndicies \o documentRevealIndicies
        nonce == IF NonceIsFalsy(options) THEN random ELSE options.nonce
        allInputStatements == proofStatements \o documentStatements
        request == [signature |-> signature,
                    publicKey |-> SuiteKey.publicKeyBuffer,
                    messages |-> allInputStatements,
                    nonce |-> nonce,
                    revealed |-> revealIndicies]
        outputProof == blsCreateProof(request)
        stripped == StripInputProof(proof)
        seen == [base EXCEPT !.proofStatements = proofStatements,
                             !.documentStatements = documentStatements,
                             !.transformedInputDocumentStatements =
                                 transformedInputDocumentStatements,
                             !.revealDocumentStatements = revealDocumentStatements,
                             !.revealIndicies = revealIndicies]
    IN
    IF revealData.kind = "throw" THEN [base EXCEPT !.outcome = revealData]
    ELSE IF MismatchDetected(documentRevealIndicies, revealDocumentStatements)
    THEN [seen EXCEPT !.outcome = Throw("Reconciliation")]
    ELSE IF outputProof.kind = "throw"
    THEN [seen EXCEPT !.outcome = outputProof, !.createProofRequests = <<request>>]
    ELSE [seen EXCEPT
            !.proofAfter = stripped.arg,
            !.outcome = Return([document |-> revealDocumentResult,
                                proof |-> DerivedProof(stripped.inputProof,
                                                       outputProof.value,
                                                       revealIndicies,
                                                       allInputStatements, nonce)]),
            !.createProofRequests = <<request>>]

-----------------------------------------------------------------------------
(* verifyProof *)

\* The record of a verifyProof call that has not passed any step.
NoVerification ==
  [outcome |-> Throw("NotCalled"),
   called |-> FALSE,
   proofBefore |-> <<>>,
   documentBefore |-> [graph |-> <<>>],
   proofAfter |-> <<>>,
   documentAfter |-> [graph |-> <<>>],
   statementsToVerify |-> <<>>,
   keyStatus |-> "notConsulted",
   resolution |-> "notCalled",
   primitive |-> "notCalled",
   purpose |-> "notCalled"]

\* Fault variant: no try/catch around the body.
CatchNothing(result) == result

\* try { ... } catch (error) { return { verified: false, error }; }
CatchAll(result) ==
  IF result.kind = "throw"
  THEN Return([verified |-> FALSE, error |-> result.error])
  ELSE result

\* Fault variant: the purpose result is not looked at.
ConcludeWithoutPurpose(verified, validity) == Return(verified)

\* if (!valid) { throw error; } return verified;
ConcludeVerification(verified, validity) ==
  IF ~validity.valid THEN Throw(validity.error) ELSE Return(verified)

\* verifyProof(options) with the document loader and purpose it is given.
\* Returns the record of the call: its outcome, the caller's objects after
\* it, and which collaborators were reached with what result.
verifyProof(options, documentLoader, purpose) ==
  LET base == [NoVerification EXCEPT
                 !.called = TRUE,
                 !.proofBefore = options.proof, !.documentBefore = options.document,
                 !.proofAfter = options.proof, !.documentAfter = options.document]
      proofData == createVerifyProofData(options.proof, documentLoader)
      proof == proofData.arg
      documentData == createVerifyProofData(options.document, documentLoader)
      document == documentData.arg
      after == [base EXCEPT !.proofAfter = proof]
      afterBoth == [after EXCEPT !.documentAfter = document]
  IN
  IF proofData.result.kind = "throw"
  THEN [after EXCEPT !.outcome = CatchAll(proofData.result)]
  ELSE IF documentData.result.kind = "throw"
  THEN [afterBoth EXCEPT !.outcome = CatchAll(documentData.result)]
  ELSE
    LET proofStatements == proofData.result.value
        documentStatements == documentData.result.value
        transformedDocumentStatements ==
          [i \in 1..Len(documentStatements) |->
             RestoreBlankNodeIdentifier(documentStatements[i])]
        statementsToVerify == proofStatements \o transformedDocumentStatements
        verificationMethod == getVerificationMethod(proof, documentLoader)
        seen == [afterBoth EXCEPT !.statementsToVerify = statementsToVerify,
                                  !.keyStatus = documentLoader.resolves]
    IN
    IF verificationMethod.kind = "throw"
    THEN [seen EXCEPT !.outcome = CatchAll(verificationMethod),
                      !.resolution = verificationMethod.error]
    ELSE IF ~Has(proof, "proof")  \* new Buffer(undefined, "base64") throws
    THEN [seen EXCEPT !.outcome = CatchAll(Throw("TypeError")),
                      !.resolution = "resolved", !.primitive = "threw"]
    ELSE
      LET verified == blsVerifyProof([proof |-> Base64Decode(proof.proof),
                                      publicKey |-> SuiteKey.publicKeyBuffer,
                                      messageCount |-> proof.totalStatements,
                                      messages |-> statementsToVerify,
                                      nonce |-> proof.nonce,
                                      revealed |-> proof.revealStatements])
          validity == PurposeValidate(purpose)
          reached == [seen EXCEPT
                        !.resolution = "resolved",
                        !.primitive = IF verified.verified THEN "accepted" ELSE "rejected",
                        !.purpose = IF validity.valid THEN "valid" ELSE "invalid"]
      IN [reached EXCEPT !.outcome = CatchAll(ConcludeVerification(verified, validity))]

-----------------------------------------------------------------------------
(* Inputs *)

\* BbsBlsSignature2020.createVerifyData: proof statements, then document statements.
SuiteCreateVerifyData(proof, document) ==
  SuiteCreateVerifyProofData(proof, [failsOn |-> "none"]).value
    \o SuiteCreateVerifyDocumentData(document, [failsOn |-> "none"]).value

\* The issuer's proof over a document: metadata plus the signature over P ++ D.
IssuedProof(metadata, document) ==
  Spread(metadata,
         [signature |-> Base64Encode(BlsSign(SuiteKey.publicKeyBuffer,
                                             SuiteCreateVerifyData(metadata, document)))])

ProofMetadata ==
  { [created |-> "2020-04-26T04:21:07Z", type |-> IssuerProofType,
     verificationMethod |-> [form |-> "string", text |-> VerificationMethodId]],
    [created |-> "2020-04-26T04:21:07Z", type |-> IssuerProofType,
     verificationMethod |-> [form |-> "object", id |-> VerificationMethodId]],
    [created |-> "2020-04-26T04:21:07Z", type |-> IssuerProofType],
    [created |-> "2020-04-26T04:21:07Z", type |-> OtherProofType,
     verificationMethod |-> [form |-> "string", text |-> VerificationMethodId]] }

SignedDocuments == {[graph |-> l] : l \in CanonicalLists(MaxDoc) \ {<<>>}}

\* Reveal templates: the statements to match and the statements supplied by default.
RevealDocuments ==
  {[match |-> m, default |-> d] :
     <<m, d>> \in {x \in (SUBSET Statements) \X (SUBSET Statements) :
                     x[1] \cap x[2] = {} /\ Cardinality(x[1] \cup x[2]) <= MaxReveal}}

\* The nonce option: omitted, empty, or a caller-chosen value.
NonceOptions == {<<>>, [nonce |-> ""], [nonce |-> "callerNonce"]}

\* Buffer.from(randomBytes(50)).toString("base64")
RandomNonces == {"random50"}

DeriveLoaders == {[failsOn |-> f, resolves |-> "active"] : f \in {"none", "proof", "document"}}

VerifyLoaders ==
  {[failsOn |-> f, resolves |-> r] :
     f \in {"none", "proof", "document"}, r \in {"active", "revoked", "notFound"}}

Purposes == {"valid", "invalid"}

NoTamper == [statement |-> FALSE, original |-> EmptyLine, mutated |-> EmptyLine,
             retyped |-> FALSE]

-----------------------------------------------------------------------------
(* State machine *)

Init ==
  /\ pc = "signed"
  /\ \E document \in SignedDocuments, metadata \in ProofMetadata :
       signed = [document |-> document, proof |-> IssuedProof(metadata, document)]
  /\ presented = signed
  /\ derivation = NoDerivation
  /\ verification = NoVerification
  /\ tamper = NoTamper

\* The holder calls deriveProof on the signed document.
DeriveProof ==
  /\ pc = "signed"
  /\ \E revealDocument \in RevealDocuments, nonceOption \in NonceOptions,
        documentLoader \in DeriveLoaders, random \in RandomNonces :
       LET options == Spread([document |-> signed.document, proof |-> signed.proof,
                              revealDocument |-> revealDocument], nonceOption)
           call == deriveProof(options, documentLoader, random)
           inputs == [document |-> call.documentAfter, proof |-> call.proofAfter]
       IN /\ derivation' = call
          /\ signed' = inputs
          /\ IF call.outcome.kind = "return"
             THEN pc' = "derived" /\ presented' = call.outcome.value
             ELSE pc' = "deriveFailed" /\ presented' = inputs
  /\ UNCHANGED <<verification, tamper>>

\* Someone changes one disclosed statement of the derived document.
TamperStatement ==
  /\ pc = "derived"
  /\ ~tamper.statement
  /\ \E i \in 1..Len(presented.document.graph),
        mutated \in Statements \ Range(presented.document.graph) :
       LET original == presented.document.graph[i]
       IN /\ presented' = [presented EXCEPT !.document.graph =
                             CanonicalOf((Range(@) \ {original}) \cup {mutated})]
          /\ tamper' = [tamper EXCEPT !.statement = TRUE, !.original = original,
                                      !.mutated = mutated]
  /\ UNCHANGED <<pc, signed, derivation, verification>>

\* The derived proof is presented under the issuer's proof type.
PresentWithIssuerType ==
  /\ pc = "derived"
  /\ ~tamper.retyped
  /\ presented' = [presented EXCEPT !.proof.type = IssuerProofType]
  /\ tamper' = [tamper EXCEPT !.retyped = TRUE]
  /\ UNCHANGED <<pc, signed, derivation, verification>>

\* A verifier calls verifyProof on what is presented.
VerifyProof ==
  /\ pc \in {"signed", "derived", "deriveFailed"}
  /\ \E documentLoader \in VerifyLoaders, purpose \in Purposes :
       LET call == verifyProof(presented, documentLoader, purpose)
       IN /\ verification' = call
          /\ presented' = [document |-> call.documentAfter, proof |-> call.proofAfter]
  /\ pc' = "verified"
  /\ UNCHANGED <<signed, derivation, tamper>>

Next == DeriveProof \/ TamperStatement \/ PresentWithIssuerType \/ VerifyProof

Spec == Init /\ [][Next]_vars

-----------------------------------------------------------------------------
(* Properties *)

Derived == derivation.called /\ derivation.outcome.kind = "return"

Verified == verification.called /\ verification.outcome.kind = "return"

\* The zero-based position of a reveal statement in the stabilized document statements.
MatchIndex(st) == IndexOf(derivation.transformedInputDocumentStatements, st)

\* deriveProof got as far as computing the reveal indices.
IndexStepReached ==
  /\ derivation.called
  /\ derivation.outcome \notin {Throw("TypeMismatch"), Throw("DecodeError"),
                                 Throw("CanonicalizationError")}

\* C1 (round-trip disclosure): when deriveProof succeeded on a reveal result
\* with at least one statement and its output is verified unchanged, with a
\* resolvable, non-revoked verification method and a passing purpose check,
\* verifyProof returns verified:true.
C1_RoundTripDisclosure ==
  ( /\ pc = "verified"
    /\ Derived
    /\ derivation.revealDocumentStatements # <<>>
    /\ tamper = NoTamper
    /\ Verified
    /\ verification.resolution = "resolved"
    /\ verification.purpose = "valid" )
  => verification.outcome.value.verified

\* C2 (reveal/document mismatch): when a statement of the canonicalized reveal
\* result has no exact match in the stabilized document statements, deriveProof
\* fails with the Reconciliation error and never calls the create-proof primitive.
C2_RevealMismatchFails ==
  ( /\ IndexStepReached
    /\ \E i \in 1..Len(derivation.revealDocumentStatements) :
         MatchIndex(derivation.revealDocumentStatements[i]) = -1 )
  => /\ derivation.outcome = Throw("Reconciliation")
     /\ derivation.createProofRequests = <<>>

\* C3 (tamper detection): when one disclosed statement of a derived document
\* is changed to a different statement and nothing else, verifyProof returns
\* verified:false, and the inverse blank-node transform does not map the
\* changed statement onto the signed statement it replaced.
C3_TamperDetection ==
  ( /\ pc = "verified"
    /\ Derived
    /\ tamper.statement
    /\ ~tamper.retyped
    /\ Verified )
  => /\ ~verification.outcome.value.verified
     /\ MatchIndex(tamper.original) >= 0
          => RestoreBlankNodeIdentifier(tamper.mutated)
               # derivation.documentStatements[MatchIndex(tamper.original) + 1]

\* The cause verifyProof reports when a step failed, "none" when none did.
FailureCause ==
  IF verification.resolution = "notCalled" THEN "CanonicalizationError"
  ELSE IF verification.resolution # "resolved" THEN verification.resolution
  ELSE IF verification.primitive = "threw" THEN "TypeError"
  ELSE IF verification.purpose = "invalid" THEN "PurposeFailure"
  ELSE IF verification.primitive = "rejected" THEN "PrimitiveFailure"
  ELSE "none"

\* C4 (verifyProof never raises): every verifyProof call completes by returning
\* a result; when any internal step failed the result is verified:false with
\* that step's error as its cause.
C4_VerifyProofNeverRaises ==
  verification.called =>
    /\ verification.outcome.kind = "return"
    /\ FailureCause # "none" =>
         verification.outcome.value = [verified |-> FALSE, error |-> FailureCause]

\* A verifyProof call in which a step threw: the presented proof has no proof value.
C4_Witness ==
  /\ verification.called
  /\ verification.primitive = "threw"
  /\ verification.outcome.kind = "return"

\* What the verify primitive alone says about the presented proof and statements.
CryptographicCheckAlone ==
  /\ Has(verification.proofBefore, "proof")
  /\ blsVerifyProof([proof |-> Base64Decode(verification.proofBefore.proof),
                     publicKey |-> SuiteKey.publicKeyBuffer,
                     messageCount |-> verification.proofBefore.totalStatements,
                     messages |-> verification.statementsToVerify,
                     nonce |-> verification.proofBefore.nonce,
                     revealed |-> verification.proofBefore.revealStatements]).verified

\* C5 (revoked key rejection): when the verification method the proof refers
\* to resolves to a key document carrying a revocation marker, verifyProof
\* returns verified:false with the Revoked cause.
C5_RevokedKeyRejected ==
  ( /\ verification.called
    /\ verification.keyStatus = "revoked"
    /\ Has(verification.proofBefore, "verificationMethod") )
  => verification.outcome = Return([verified |-> FALSE, error |-> "Revoked"])

\* A revoked key with a proof the primitive alone would accept.
C5_Witness ==
  /\ verification.called
  /\ verification.keyStatus = "revoked"
  /\ Has(verification.proofBefore, "verificationMethod")
  /\ CryptographicCheckAlone

\* C6 (both checks must pass): verifyProof returns verified:true only when the
\* primitive accepted, the purpose is valid and the verification method was
\* resolved and is not revoked; an invalid purpose gives verified:false with
\* the purpose error as cause.
C6_BothChecksMustPass ==
  Verified =>
    /\ verification.outcome.value.verified =>
         /\ verification.primitive = "accepted"
         /\ verification.purpose = "valid"
         /\ verification.resolution = "resolved"
         /\ verification.keyStatus = "active"
    /\ verification.purpose = "invalid" =>
         verification.outcome.value = [verified |-> FALSE, error |-> "PurposeFailure"]

\* An invalid purpose on a proof the primitive accepted.
C6_Witness ==
  /\ Verified
  /\ verification.primitive = "accepted"
  /\ verification.purpose = "invalid"

\* C7 (nonce determinism): a nonce value the caller supplies is the nonce
\* passed to the create-proof primitive and the nonce of the derived proof; a
\* nonce is generated only when none is supplied.
C7_NonceDeterminism ==
  Derived =>
    LET request == derivation.createProofRequests[1]
        proof == derivation.outcome.value.proof
    IN /\ request.nonce = proof.nonce
       /\ Has(derivation.nonceOption, "nonce") =>
            /\ request.nonce = derivation.nonceOption.nonce
            /\ request.nonce \notin RandomNonces
       /\ ~Has(derivation.nonceOption, "nonce") => request.nonce \in RandomNonces

\* C8 (index stability): the reveal indices of a derived proof are as many as
\* the proof statements plus the revealed document statements, and begin with
\* 0, 1, ..., numberOfProofStatements - 1.
C8_IndexStability ==
  Derived =>
    LET revealStatements == derivation.outcome.value.proof.revealStatements
        numberOfProofStatements == Len(derivation.proofStatements)
    IN /\ Len(revealStatements) =
            numberOfProofStatements + Len(derivation.outcome.value.document.graph)
       /\ \A i \in 1..numberOfProofStatements : revealStatements[i] = i - 1

\* A derived proof with several proof statements and a disclosed document statement.
C8_Witness ==
  /\ Derived
  /\ Len(derivation.proofStatements) >= 2
  /\ Len(derivation.outcome.value.document.graph) >= 1

\* C9 (blank-node stabilizer round trip): on the document statements of every
\* derivation, the derive-side transform keeps order and number, changes only
\* the subject, is injective, and is undone by the verify-side transform.
C9_StabilizerRoundTrip ==
  IndexStepReached =>
    LET original == derivation.documentStatements
        transformed == derivation.transformedInputDocumentStatements
    IN /\ Len(transformed) = Len(original)
       /\ \A i \in 1..Len(original) :
            /\ transformed[i][2] = original[i][2]
            /\ transformed[i][3] = original[i][3]
            /\ RestoreBlankNodeIdentifier(transformed[i]) = original[i]
       /\ \A i, j \in 1..Len(original) :
            transformed[i] = transformed[j] => i = j

\* C10 (no in-place mutation): after a deriveProof or verifyProof call, failed
\* or not, the caller's proof and document are what they were before it.
C10_NoInPlaceMutation ==
  /\ derivation.called =>
       /\ derivation.proofAfter = derivation.proofBefore
       /\ derivation.documentAfter = derivation.documentBefore
       /\ Has(derivation.proofAfter, "signature")
       /\ Has(derivation.proofAfter, "type")
  /\ verification.called =>
       /\ verification.proofAfter = verification.proofBefore
       /\ verification.documentAfter = verification.documentBefore
       /\ presented = [document |-> verification.documentBefore,
                       proof |-> verification.proofBefore]

\* verifyProof was called on a derived proof, which still carries its
\* disclosure fields afterwards.
C10_Witness ==
  /\ Derived
  /\ verification.called
  /\ DisclosureOnlyFields \subseteq DOMAIN verification.proofAfter
  /\ Has(signed.proof, "signature")

====
